---- MODULE Spec2Model ----
(***************************************************************************)
(* TimeSliderChoropleth (fp_covid19/visualization/time_slider_choropleth.py)*)
(*                                                                         *)
(* The widget has a Python half (the constructor __init__ and render) and  *)
(* a JavaScript half (the script emitted by _template, which runs once     *)
(* when the page loads and then reacts to slider and pointer events).      *)
(*                                                                         *)
(* Conventions of the model:                                               *)
(*   - a string of decimal digits (a timestamp) is a sequence of digits,   *)
(*     <<1,0,0>> for "100", so that plain-string order and numeric value   *)
(*     are both computed, never assumed;                                   *)
(*   - a Python value is a record with a tag ("dict", "str", "list");      *)
(*   - a Python dict keeps insertion order: styledict is a sequence of     *)
(*     [id, val] items with distinct ids;                                  *)
(*   - an opacity is a number of tenths (5 is 0.5, 10 is 1);               *)
(*   - an SVG path keeps its fill attribute, its fill-opacity attribute    *)
(*     and its fill-opacity style property (<<>> when not set, <<v>> when  *)
(*     set); the style property wins over the attribute when rendering;    *)
(*   - the features of the geographic data carry no properties.style.      *)
(***************************************************************************)
EXTENDS Integers, Sequences, FiniteSets, TLC

VARIABLES
    pc,                 \* "start", "constructed", "config_error", "rendered", "embed_error", "live"
    args,               \* the constructor's arguments and the embedding of the widget
    error,              \* the exception raised by __init__ or render
    assigned,           \* the attributes of self that __init__ has assigned
    timestamps,         \* self.timestamps / var timestamps
    header,             \* names of the children of figure.header added by render
    current_timestamp,  \* var current_timestamp
    slider,             \* the emitted range control: min, max, step, initial value
    slider_value,       \* the range control's value (this.value)
    label,              \* text of output#slider-value
    paths,              \* the rendered SVG path of each feature
    hovered,            \* the feature under the pointer, "none" when there is none
    hoverSlides,        \* a slider input arrived since the pointer entered `hovered`
    prev,               \* current index and paths before the last slider input
    uncaught,           \* an event handler ended with an uncaught TypeError
    clicked,            \* `hovered` was clicked since the pointer entered it
    fit_target          \* the feature whose bounds the map was last asked to fit, or "none"

vars == <<pc, args, error, assigned, timestamps, header, current_timestamp,
          slider, slider_value, label, paths, hovered, hoverSlides, prev, uncaught,
          clicked, fit_target>>

(***************************************************************************)
(* Bounds of the model                                                     *)
(***************************************************************************)
\* most timestamps one feature maps
MaxKeys == 2
\* init_timestamp_index ranges over -(MaxInitIndex+1) .. MaxInitIndex
MaxInitIndex == 3

(***************************************************************************)
(* Inputs                                                                  *)
(***************************************************************************)
\* "100000", "200000", "9": plain-string order 100000 < 200000 < 9
TimestampPool == { <<1,0,0,0,0,0>>, <<2,0,0,0,0,0>>, <<9>> }

\* a style_options_dict: a dict with the keys `keys`; PyNone stands for None
StyleEntry(c, o) == [tag |-> "dict", keys |-> {"color", "opacity"}, color |-> c, opacity |-> o]
PyNone == [tag |-> "None", keys |-> {}, color |-> "", opacity |-> 0]
ColorOnly(c) == [tag |-> "dict", keys |-> {"color"}, color |-> c, opacity |-> 0]

StyleEntries == { StyleEntry("red", 5), StyleEntry("blue", 8) }

\* what a time may map to besides a full style entry: None, or a dict without opacity
LooseEntries == StyleEntries \cup { PyNone, ColorOnly("red") }

\* the features of the geographic data; a styledict may leave any of them out
GeoFeatures == {"A", "B"}
StyleIds == {"A", "B"}

PyDict(m) == [tag |-> "dict", map |-> m]
PyOther(t) == [tag |-> t, map |-> <<>>]

\* a per-feature value: {time: style_options_dict}, or something that is no dict
FeatureDicts ==
    { PyDict(m) : m \in UNION { [S -> StyleEntries] :
                      S \in { T \in SUBSET TimestampPool : Cardinality(T) <= MaxKeys } } }
FeatureValues == FeatureDicts \cup { PyOther("str"), PyOther("list") }

\* a per-feature dict in which some time maps to no full style entry
LooseFeatureDicts ==
    { PyDict(m) : m \in UNION { [S -> LooseEntries] :
                      S \in { T \in SUBSET TimestampPool : Cardinality(T) <= MaxKeys } } }
    \ FeatureDicts

\* the insertion orders of the feature ids
IdOrders == { <<>>, <<"A">>, <<"B">>, <<"A", "B">>, <<"B", "A">> }

StyleDicts ==
    { [tag |-> "dict", items |-> [i \in DOMAIN o |-> [id |-> o[i], val |-> v[o[i]]]]] :
          o \in IdOrders, v \in [StyleIds -> FeatureValues] }
    \cup { [tag |-> "str", items |-> <<>>] }
    \cup { [tag |-> "dict", items |-> << [id |-> "A", val |-> v] >>] : v \in LooseFeatureDicts }

InitIndexes == (0 - MaxInitIndex - 1) .. MaxInitIndex

(***************************************************************************)
(* Strings of digits                                                       *)
(***************************************************************************)
\* the order a numeric sort would use (not the code's)
NumLess(a, b) ==
    \/ Len(a) < Len(b)
    \/ /\ Len(a) = Len(b)
       /\ \E k \in 1..Len(a) : a[k] < b[k] /\ \A j \in 1..(k-1) : a[j] = b[j]

\* Python's < on str: by code point, a proper prefix first
RECURSIVE StrLess(_, _)
StrLess(a, b) ==
    IF a = <<>> THEN b # <<>>
    ELSE IF b = <<>> THEN FALSE
    ELSE IF Head(a) # Head(b) THEN Head(a) < Head(b)
    ELSE StrLess(Tail(a), Tail(b))

\* JavaScript parseInt / the number a range control reads from a digit string
RECURSIVE parseInt(_)
parseInt(s) ==
    IF s = <<>> THEN 0 ELSE 10 * parseInt(SubSeq(s, 1, Len(s) - 1)) + s[Len(s)]

\* a variant that takes the seconds for milliseconds
datestringNoMillis(ts) == parseInt(ts) \div 86400000

\* new Date(ms).toDateString(): the calendar day, as the number of days since the epoch
toDateString(ms) == ms \div 86400000

datestring(ts) == toDateString(parseInt(ts) * 1000)

(***************************************************************************)
(* __init__                                                                *)
(***************************************************************************)
isinstance_dict(x) == x.tag = "dict"

\* for val in styledict.values(): the first value that is no dict, in insertion order
RECURSIVE FirstNonDict(_)
FirstNonDict(items) ==
    IF items = <<>> THEN <<>>
    ELSE IF ~isinstance_dict(Head(items).val) THEN <<Head(items).val>>
    ELSE FirstNonDict(Tail(items))

\* for feature in styledict.values(): timestamps.update(set(feature.keys()))
RECURSIVE CollectTimestamps(_, _)
CollectTimestamps(items, acc) ==
    IF items = <<>> THEN acc
    ELSE CollectTimestamps(Tail(items), acc \cup DOMAIN Head(items).val.map)

\* sorted(list(timestamps)) on str elements
RECURSIVE sorted(_)
sorted(S) ==
    IF S = {} THEN <<>>
    ELSE LET m == CHOOSE x \in S : \A y \in S \ {x} : StrLess(x, y)
         IN  <<m>> \o sorted(S \ {m})

NoError == [type |-> "none", what |-> "none", value |-> 0]

\* a variant that lets the index one past the end through
IndexAcceptedOffByOne(idx, n) ==
    IF idx >= 0 THEN idx <= n ELSE 0 - n <= idx

\* a variant that accepts every negative index
IndexAcceptedNoLower(idx, n) ==
    IF idx >= 0 THEN idx < n ELSE TRUE

\* the two asserts on init_timestamp_index
IndexAccepted(idx, n) ==
    IF idx >= 0 THEN idx < n ELSE 0 - n <= idx

\* a variant that collects the timestamps and checks the index before it
\* looks at styledict's values
ConstructIndexFirst(sd, idx) ==
    IF ~isinstance_dict(sd)
    THEN [ok |-> FALSE, assigned |-> {}, timestamps |-> <<>>,
          error |-> [type |-> "ValueError", what |-> "styledict", value |-> sd]]
    ELSE LET ts == sorted(CollectTimestamps(
                      SelectSeq(sd.items, LAMBDA it : isinstance_dict(it.val)), {}))
         IN  IF ~IndexAccepted(idx, Len(ts))
             THEN [ok |-> FALSE, assigned |-> {"timestamps", "styledict", "highlight"},
                   timestamps |-> ts,
                   error |-> [type |-> "AssertionError", what |-> "init_timestamp_index",
                              value |-> idx]]
             ELSE IF FirstNonDict(sd.items) # <<>>
             THEN [ok |-> FALSE, assigned |-> {"timestamps", "styledict", "highlight"},
                   timestamps |-> ts,
                   error |-> [type |-> "ValueError", what |-> "item",
                              value |-> FirstNonDict(sd.items)[1]]]
             ELSE [ok |-> TRUE,
                   assigned |-> {"timestamps", "styledict", "highlight", "init_timestamp_index"},
                   timestamps |-> ts, error |-> NoError]

\* the constructor, from the isinstance checks to the last assignment
Construct(sd, idx) ==
    IF ~isinstance_dict(sd)
    THEN [ok |-> FALSE, assigned |-> {}, timestamps |-> <<>>,
          error |-> [type |-> "ValueError", what |-> "styledict", value |-> sd]]
    ELSE IF FirstNonDict(sd.items) # <<>>
    THEN [ok |-> FALSE, assigned |-> {}, timestamps |-> <<>>,
          error |-> [type |-> "ValueError", what |-> "item",
                     value |-> FirstNonDict(sd.items)[1]]]
    ELSE LET ts == sorted(CollectTimestamps(sd.items, {}))
         IN  IF ~IndexAccepted(idx, Len(ts))
             THEN [ok |-> FALSE, assigned |-> {"timestamps", "styledict", "highlight"},
                   timestamps |-> ts,
                   error |-> [type |-> "AssertionError", what |-> "init_timestamp_index",
                              value |-> idx]]
             ELSE [ok |-> TRUE,
                   assigned |-> {"timestamps", "styledict", "highlight", "init_timestamp_index"},
                   timestamps |-> ts, error |-> NoError]

(***************************************************************************)
(* The state before the page exists                                        *)
(***************************************************************************)
NoPath == [fill |-> "none", fill_opacity_attr |-> 0, fill_opacity_style |-> <<>>]
NoPaths == [f \in GeoFeatures |-> NoPath]
NoSlider == [min |-> 0, max |-> 0, step |-> 0, value |-> 0]
NoPrev == [index |-> 0 - 1, paths |-> NoPaths]

Init ==
    /\ pc = "start"
    /\ args \in [styledict : StyleDicts, init_timestamp_index : InitIndexes,
                 highlight : BOOLEAN, in_figure : BOOLEAN]
    /\ error = NoError
    /\ assigned = {}
    /\ timestamps = <<>>
    /\ header = {}
    /\ current_timestamp = <<>>
    /\ slider = NoSlider
    /\ slider_value = 0
    /\ label = 0 - 1
    /\ paths = NoPaths
    /\ hovered = "none"
    /\ hoverSlides = FALSE
    /\ prev = NoPrev
    /\ uncaught = FALSE
    /\ clicked = FALSE
    /\ fit_target = "none"

\* TimeSliderChoropleth(data, styledict, init_timestamp_index=..., highlight=...)
New ==
    /\ pc = "start"
    /\ LET r == Construct(args.styledict, args.init_timestamp_index)
       IN  /\ pc' = IF r.ok THEN "constructed" ELSE "config_error"
           /\ error' = r.error
           /\ assigned' = r.assigned
           /\ timestamps' = r.timestamps
    /\ UNCHANGED <<args, header, current_timestamp, slider, slider_value, label,
                   paths, hovered, hoverSlides, prev, uncaught, clicked, fit_target>>

(***************************************************************************)
(* render                                                                  *)
(***************************************************************************)
\* a variant of render that does not look at its root
RenderUnchecked ==
    /\ pc = "constructed"
    /\ pc' = "rendered"
    /\ header' = header \cup {"d3v4"}
    /\ UNCHANGED <<args, error, assigned, timestamps, current_timestamp, slider,
                   slider_value, label, paths, hovered, hoverSlides, prev, uncaught,
                   clicked, fit_target>>

\* render(): the root must be a Figure; the d3 script link goes into its header
Render ==
    /\ pc = "constructed"
    /\ IF args.in_figure
       THEN /\ pc' = "rendered"
            /\ header' = header \cup {"d3v4"}
            /\ UNCHANGED error
       ELSE /\ pc' = "embed_error"
            /\ error' = [type |-> "AssertionError", what |-> "figure", value |-> 0]
            /\ UNCHANGED header
    /\ UNCHANGED <<args, assigned, timestamps, current_timestamp, slider, slider_value,
                   label, paths, hovered, hoverSlides, prev, uncaught, clicked, fit_target>>

(***************************************************************************)
(* The emitted script                                                      *)
(***************************************************************************)
\* a[i] on a JavaScript array (0-based); undefined, written <<>>, outside it
At(a, i) == IF i \in 0..(Len(a) - 1) THEN a[i + 1] ELSE <<>>

\* a variant that indexes from the start whatever the sign
InitialTimestampNoBranch(ts, idx) == At(ts, idx)

\* {% if this.init_timestamp_index >= 0 %} timestamps[i] {% else %} timestamps[length+i]
InitialTimestamp(ts, idx) ==
    IF idx >= 0 THEN At(ts, idx) ELSE At(ts, Len(ts) + idx)

\* the position of timestamp t in the axis (0-based), -1 when it is not in it
IndexOf(ts, t) ==
    IF \E i \in 1..Len(ts) : ts[i] = t
    THEN (CHOOSE i \in 1..Len(ts) : ts[i] = t) - 1
    ELSE 0 - 1

\* the value a range control takes from a digit-string value attribute:
\* the number it spells, clamped into [min, max] (its step of 1 keeps integers)
RangeValue(v, min, max) ==
    LET n == parseInt(v)
    IN  IF max < min THEN min
        ELSE IF n > max THEN max
        ELSE IF n < min THEN min
        ELSE n

\* d3 ... append("input"): the attributes of the range control
InsertSlider(ts, cur) ==
    [min |-> 0, max |-> Len(ts) - 1, step |-> 1, value |-> cur]

\* L.geoJson(data) is called with the data alone: it is given no options
LayerOptions == {}

\* a variant that attaches the handlers whatever the flag and the options
ListenersAlways(highlight) == {"mouseout", "mouseover", "click"}

\* the events a feature's layer listens to: Leaflet calls options.onEachFeature
\* for each feature, and onEachFeature is what calls layer.on
Listeners(highlight) ==
    IF highlight /\ "onEachFeature" \in LayerOptions
    THEN {"mouseout", "mouseover", "click"}
    ELSE {}

\* L.geoJson(...).addTo(map), setStyle (no properties.style: nothing changes):
\* each feature's path with Leaflet's default fill
LeafletPaths ==
    [f \in GeoFeatures |->
        [fill |-> "#3388ff", fill_opacity_attr |-> 2, fill_opacity_style |-> <<>>]]

\* d3.selectAll('path') ... .attr('fill-opacity', 0)
Baseline(p) == [f \in DOMAIN p |-> [p[f] EXCEPT !.fill_opacity_attr = 0]]

\* d3's attr('fill', e['color']): a missing key reads undefined, which removes the attribute
FillAttr(e) == IF "color" \in e.keys THEN e.color ELSE "unset"

\* d3's style('fill-opacity', e['opacity']): undefined removes the style property
OpacityStyle(e) == IF "opacity" \in e.keys THEN <<e.opacity>> ELSE <<>>

\* fill_map: only a feature that has an entry at current_timestamp is painted;
\* reading ['color'] of null is a TypeError, which ends the loop
RECURSIVE fill_map(_, _, _)
fill_map(p, items, cur) ==
    IF items = <<>> THEN p
    ELSE LET id == Head(items).id
             style == Head(items).val.map
         IN  IF cur \notin DOMAIN style THEN fill_map(p, Tail(items), cur)
             ELSE IF style[cur].tag = "None" THEN p
             ELSE IF id \notin DOMAIN p THEN fill_map(p, Tail(items), cur)
             ELSE fill_map([p EXCEPT ![id] = [@ EXCEPT !.fill = FillAttr(style[cur]),
                                                  !.fill_opacity_style = OpacityStyle(style[cur])]],
                           Tail(items), cur)

\* fill_map ends with a TypeError: some feature's entry at current_timestamp is null
fill_map_throws(items, cur) ==
    \E i \in DOMAIN items :
        cur \in DOMAIN items[i].val.map /\ items[i].val.map[cur].tag = "None"

\* a variant of the first paint that stops after the baseline
InitialPaintBaselineOnly(items, cur) == Baseline(LeafletPaths)

\* the end of the script: the layer, the baseline, then fill_map()
InitialPaint(items, cur) == fill_map(Baseline(LeafletPaths), items, cur)

\* the body of the slider's input handler, for this.value = v
on_input(ts, items, p, v) ==
    LET cur == At(ts, v)
    IN  [current_timestamp |-> cur,
         label |-> datestring(cur),
         paths |-> fill_map(p, items, cur),
         threw |-> fill_map_throws(items, cur)]

\* the script runs once, when the page loads
Load ==
    /\ pc = "rendered"
    /\ pc' = "live"
    /\ current_timestamp' = InitialTimestamp(timestamps, args.init_timestamp_index)
    /\ slider' = InsertSlider(timestamps, current_timestamp')
    /\ slider_value' = RangeValue(slider'.value, slider'.min, slider'.max)
    /\ label' = datestring(current_timestamp')
    /\ paths' = InitialPaint(args.styledict.items, current_timestamp')
    /\ uncaught' = fill_map_throws(args.styledict.items, current_timestamp')
    /\ UNCHANGED <<args, error, assigned, timestamps, header, hovered, hoverSlides, prev,
                   clicked, fit_target>>

\* d3.select("#slider").on("input", ...): the user moves the slider to v
SliderInput(v) ==
    /\ pc = "live"
    /\ v \in slider.min..slider.max
    /\ v # slider_value
    /\ slider_value' = v
    /\ LET r == on_input(timestamps, args.styledict.items, paths, v)
       IN  /\ current_timestamp' = r.current_timestamp
           /\ label' = r.label
           /\ paths' = r.paths
           /\ uncaught' = (uncaught \/ r.threw)
    /\ hoverSlides' = (hovered # "none")
    /\ prev' = [index |-> IndexOf(timestamps, current_timestamp), paths |-> paths]
    /\ UNCHANGED <<pc, args, error, assigned, timestamps, header, slider, hovered,
                   clicked, fit_target>>

\* styledict[id]: the feature's mapping, <<>> (undefined) for an id styledict lacks
RECURSIVE Lookup(_, _)
Lookup(items, id) ==
    IF items = <<>> THEN <<>>
    ELSE IF Head(items).id = id THEN <<Head(items).val.map>>
    ELSE Lookup(Tail(items), id)

\* a variant of mouseover that selects every path, not the feature's own
mouseoverAllPaths(p, items, cur, f) ==
    LET style == Lookup(items, f)
    IN  IF style = <<>> THEN [paths |-> p, threw |-> TRUE]
        ELSE IF cur \in DOMAIN style[1]
        THEN [paths |-> [g \in DOMAIN p |-> [p[g] EXCEPT !.fill_opacity_style = <<10>>]],
              threw |-> FALSE]
        ELSE [paths |-> p, threw |-> FALSE]

\* mouseover: opacity 1 for a feature that has an entry at current_timestamp;
\* `in` on undefined is a TypeError
mouseover(p, items, cur, f) ==
    LET style == Lookup(items, f)
    IN  IF style = <<>> THEN [paths |-> p, threw |-> TRUE]
        ELSE IF cur \in DOMAIN style[1]
        THEN [paths |-> [p EXCEPT ![f] = [@ EXCEPT !.fill_opacity_style = <<10>>]],
              threw |-> FALSE]
        ELSE [paths |-> p, threw |-> FALSE]

\* a variant of mouseout that also resets the fill colour
mouseoutResetsFill(p, items, cur, f) ==
    LET style == Lookup(items, f)
    IN  IF style = <<>> THEN [paths |-> p, threw |-> TRUE]
        ELSE IF cur \notin DOMAIN style[1] THEN [paths |-> p, threw |-> FALSE]
        ELSE [paths |-> [p EXCEPT ![f] = [@ EXCEPT !.fill = "white",
                                              !.fill_opacity_style = <<0>>]],
              threw |-> FALSE]

\* mouseout: the entry's opacity for a feature that has an entry at current_timestamp;
\* `in` on undefined and ['opacity'] of null are TypeErrors
mouseout(p, items, cur, f) ==
    LET style == Lookup(items, f)
    IN  IF style = <<>> THEN [paths |-> p, threw |-> TRUE]
        ELSE IF cur \notin DOMAIN style[1] THEN [paths |-> p, threw |-> FALSE]
        ELSE IF style[1][cur].tag = "None" THEN [paths |-> p, threw |-> TRUE]
        ELSE [paths |-> [p EXCEPT ![f] = [@ EXCEPT !.fill_opacity_style =
                                              OpacityStyle(style[1][cur])]],
              threw |-> FALSE]

\* the pointer enters feature f
MouseOver(f) ==
    /\ pc = "live"
    /\ hovered = "none"
    /\ hovered' = f
    /\ hoverSlides' = FALSE
    /\ IF "mouseover" \in Listeners(args.highlight)
       THEN LET r == mouseover(paths, args.styledict.items, current_timestamp, f)
            IN  paths' = r.paths /\ uncaught' = (uncaught \/ r.threw)
       ELSE UNCHANGED <<paths, uncaught>>
    /\ clicked' = FALSE
    /\ UNCHANGED <<pc, args, error, assigned, timestamps, header, current_timestamp,
                   slider, slider_value, label, prev, fit_target>>

\* the pointer leaves feature f
MouseOut(f) ==
    /\ pc = "live"
    /\ hovered = f
    /\ hovered' = "none"
    /\ hoverSlides' = FALSE
    /\ IF "mouseout" \in Listeners(args.highlight)
       THEN LET r == mouseout(paths, args.styledict.items, current_timestamp, f)
            IN  paths' = r.paths /\ uncaught' = (uncaught \/ r.threw)
       ELSE UNCHANGED <<paths, uncaught>>
    /\ clicked' = FALSE
    /\ UNCHANGED <<pc, args, error, assigned, timestamps, header, current_timestamp,
                   slider, slider_value, label, prev, fit_target>>

\* click: map.fitBounds(e.target.getBounds()) for the clicked feature
click(fit, f) == f

\* a variant of the click that also forces the clicked feature opaque
ClickForcesOpaque(f) ==
    /\ pc = "live"
    /\ hovered = f
    /\ clicked' = TRUE
    /\ fit_target' = f
    /\ paths' = [paths EXCEPT ![f] = [@ EXCEPT !.fill_opacity_style = <<10>>]]
    /\ UNCHANGED <<pc, args, error, assigned, timestamps, header, current_timestamp,
                   slider, slider_value, label, hovered, hoverSlides, prev, uncaught>>

\* the feature under the pointer is clicked
Click(f) ==
    /\ pc = "live"
    /\ hovered = f
    /\ clicked' = TRUE
    /\ fit_target' = IF "click" \in Listeners(args.highlight)
                     THEN click(fit_target, f)
                     ELSE fit_target
    /\ UNCHANGED <<pc, args, error, assigned, timestamps, header, current_timestamp,
                   slider, slider_value, label, paths, hovered, hoverSlides, prev, uncaught>>

Next ==
    \/ New
    \/ Render
    \/ Load
    \/ \E v \in slider.min..slider.max : SliderInput(v)
    \/ \E f \in GeoFeatures : MouseOver(f)
    \/ \E f \in GeoFeatures : MouseOut(f)
    \/ \E f \in GeoFeatures : Click(f)

Spec == Init /\ [][Next]_vars

(***************************************************************************)
(* What is on screen                                                       *)
(***************************************************************************)
\* the fill-opacity a path is drawn with: the style property, else the attribute
RenderedOpacity(p) ==
    IF p.fill_opacity_style # <<>> THEN p.fill_opacity_style[1] ELSE p.fill_opacity_attr

Rendered(p) == [f \in DOMAIN p |-> [color |-> p[f].fill, opacity |-> RenderedOpacity(p[f])]]

\* path p shows color / opacity; a fully transparent fill shows no colour at all
Shows(p, color, opacity) ==
    /\ RenderedOpacity(p) = opacity
    /\ opacity = 0 \/ p.fill = color

(***************************************************************************)
(* Vocabulary of the properties (independent of the operators above)       *)
(***************************************************************************)
Items == args.styledict.items
ItemIds == { Items[i].id : i \in DOMAIN Items }
ValidStyleDict ==
    /\ args.styledict.tag = "dict"
    /\ \A i \in DOMAIN Items : Items[i].val.tag = "dict"
AllKeys == UNION { DOMAIN Items[i].val.map : i \in DOMAIN Items }
AxisLen == Cardinality(AllKeys)
Idx == args.init_timestamp_index
ResolvedIndex == IF Idx >= 0 THEN Idx ELSE AxisLen + Idx
CurrentIndex == IndexOf(timestamps, current_timestamp)
\* no slider input has arrived since the page loaded
InitialState == pc = "live" /\ prev = NoPrev
\* plain-string order, stated position by position
LexBefore(a, b) ==
    \E k \in 1..(Len(a) + 1) :
        /\ k <= Len(b)
        /\ \A j \in 1..(k - 1) : a[j] = b[j]
        /\ k = Len(a) + 1 \/ a[k] < b[k]
\* the styledict with its items inserted in the order q
Reordered(q) == [i \in DOMAIN Items |-> Items[q[i]]]
ItemOrders == { q \in [DOMAIN Items -> DOMAIN Items] : \A i, j \in DOMAIN Items : q[i] = q[j] => i = j }
\* the entry of styledict item i at timestamp t is what path p shows, white / 0 without one
FromTable(p, i, t) ==
    IF t \in DOMAIN Items[i].val.map
    THEN Shows(p, Items[i].val.map[t].color, Items[i].val.map[t].opacity)
    ELSE Shows(p, "white", 0)
TableOpacity(f, t) ==
    IF \E i \in DOMAIN Items : Items[i].id = f /\ t \in DOMAIN Items[i].val.map
    THEN (CHOOSE e \in { Items[i].val.map[t] : i \in { k \in DOMAIN Items :
                           Items[k].id = f /\ t \in DOMAIN Items[k].val.map } } : TRUE).opacity
    ELSE 0

(***************************************************************************)
(* C1  After the initial paint and after every slider input, each feature  *)
(* of styledict that is not hovered shows its entry at the current         *)
(* timestamp, and white / 0 when it has no entry there.                    *)
(***************************************************************************)
C1_RepaintFromTable ==
    pc = "live" =>
        \A i \in DOMAIN Items :
            Items[i].id # hovered => FromTable(paths[Items[i].id], i, current_timestamp)

(***************************************************************************)
(* C2  Moving the slider from index i to index j and back to i leaves      *)
(* every feature's colour and opacity as they were at index i.             *)
(***************************************************************************)
C2_RoundTrip ==
    [][(/\ pc = "live"
        /\ slider_value' # slider_value
        /\ prev.index = IndexOf(timestamps, current_timestamp'))
       => Rendered(paths') = Rendered(prev.paths)]_vars

(***************************************************************************)
(* C3  With highlight enabled, after pointer-enter(F), a slider input and  *)
(* pointer-leave(F), F's opacity is that of its entry at the now current   *)
(* timestamp, 0 when it has none.                                          *)
(***************************************************************************)
C3_LeaveRestoresCurrent ==
    [][(/\ pc = "live"
        /\ args.highlight
        /\ hovered # "none"
        /\ hoverSlides
        /\ hovered' = "none")
       => RenderedOpacity(paths'[hovered]) = TableOpacity(hovered, current_timestamp')]_vars

(***************************************************************************)
(* C4  With highlight enabled, pointer-enter on a feature sets its         *)
(* opacity to 1, whether or not it has an entry at the current timestamp.  *)
(***************************************************************************)
C4_EnterForcesOpaque ==
    [][(/\ pc = "live"
        /\ args.highlight
        /\ hovered = "none"
        /\ hovered' # "none")
       => RenderedOpacity(paths'[hovered']) = 10]_vars

(***************************************************************************)
(* C5  The axis the constructor builds is the union of the per-feature     *)
(* timestamp keys, without duplicates, ascending in plain-string order,    *)
(* and the same for every insertion order of the features.                 *)
(***************************************************************************)
C5_AxisSortedUnion ==
    "timestamps" \in assigned =>
        /\ \A i, j \in 1..Len(timestamps) : i < j => LexBefore(timestamps[i], timestamps[j])
        /\ { timestamps[i] : i \in 1..Len(timestamps) } = AllKeys
        /\ \A q \in ItemOrders : sorted(CollectTimestamps(Reordered(q), {})) = timestamps

\* two features share a timestamp, and the axis holds "100000", "200000" and "9"
C5_Witness ==
    /\ pc = "constructed"
    /\ Len(Items) = 2
    /\ DOMAIN Items[1].val.map \cap DOMAIN Items[2].val.map # {}
    /\ timestamps = << <<1,0,0,0,0,0>>, <<2,0,0,0,0,0>>, <<9>> >>

(***************************************************************************)
(* C6  With a valid styledict whose axis has length L the constructor      *)
(* succeeds exactly when -L <= init_timestamp_index <= L-1; otherwise the  *)
(* constructor itself raises, naming the index.                            *)
(***************************************************************************)
C6_IndexRange ==
    (pc # "start" /\ ValidStyleDict) =>
        /\ (pc # "config_error") <=> (0 - AxisLen <= Idx /\ Idx <= AxisLen - 1)
        /\ pc = "config_error" =>
              /\ error.what = "init_timestamp_index"
              /\ error.value = Idx
              /\ "init_timestamp_index" \notin assigned

\* the index one past the end of an axis of two timestamps is refused
C6_Witness ==
    /\ pc = "config_error"
    /\ ValidStyleDict
    /\ AxisLen = 2
    /\ Idx = AxisLen

(***************************************************************************)
(* C7  The initial current timestamp is the axis element at the index      *)
(* when the index is >= 0, and the element at position L-k when the index  *)
(* is -k: 0 gives the first timestamp and -1 the last.                     *)
(***************************************************************************)
C7_InitialTimestamp ==
    InitialState =>
        /\ Idx >= 0 => current_timestamp = timestamps[Idx + 1]
        /\ Idx < 0 => current_timestamp = timestamps[(Len(timestamps) - (0 - Idx)) + 1]
        /\ Idx = 0 => current_timestamp = Head(timestamps)
        /\ Idx = 0 - 1 => current_timestamp = timestamps[Len(timestamps)]

\* index -1 over an axis of three timestamps starts at the last one
C7_Witness ==
    /\ InitialState
    /\ Idx = 0 - 1
    /\ Len(timestamps) = 3
    /\ current_timestamp = <<9>>

(***************************************************************************)
(* C8  A styledict that is no mapping, or that holds a per-feature value   *)
(* that is no mapping, makes the constructor raise an error carrying the   *)
(* offending value, before any timestamp is collected and before the       *)
(* index is checked.                                                       *)
(***************************************************************************)
C8_StyledictCheckedFirst ==
    (pc # "start" /\ ~ValidStyleDict) =>
        /\ pc = "config_error"
        /\ error.type = "ValueError"
        /\ assigned = {}
        /\ timestamps = <<>>
        /\ IF args.styledict.tag # "dict"
           THEN error.what = "styledict" /\ error.value = args.styledict
           ELSE /\ error.what = "item"
                /\ \E i \in DOMAIN Items : Items[i].val.tag # "dict" /\ error.value = Items[i].val

\* a styledict whose first feature has timestamps and whose second is a string,
\* given an index no axis accepts: the styledict error is the one reported
C8_Witness ==
    /\ pc = "config_error"
    /\ args.styledict.tag = "dict"
    /\ Len(Items) = 2
    /\ Items[1].val.tag = "dict"
    /\ DOMAIN Items[1].val.map # {}
    /\ Items[2].val.tag = "str"
    /\ Idx = MaxInitIndex
    /\ error.what = "item"

(***************************************************************************)
(* C9  The styles and the label right after the page loads are those the   *)
(* slider's input handler produces there for the resolved initial index,   *)
(* for negative indexes too.                                               *)
(***************************************************************************)
C9_InitialPaintIsRepaint ==
    InitialState =>
        LET r == on_input(timestamps, Items, paths, ResolvedIndex)
        IN  /\ Rendered(r.paths) = Rendered(paths)
            /\ r.label = label
            /\ r.current_timestamp = current_timestamp

\* a negative index, one feature with an entry at the initial timestamp (painted)
\* and one without (left at the baseline)
C9_Witness ==
    /\ InitialState
    /\ Idx < 0
    /\ Len(Items) = 2
    /\ current_timestamp \in DOMAIN Items[1].val.map
    /\ current_timestamp \notin DOMAIN Items[2].val.map
    /\ DOMAIN Items[2].val.map # {}
    /\ RenderedOpacity(paths[Items[1].id]) = Items[1].val.map[current_timestamp].opacity
    /\ RenderedOpacity(paths[Items[2].id]) = 0

(***************************************************************************)
(* C10 The range control has min 0, max L-1, step 1 and starts at the      *)
(* resolved initial index, so that the axis element at the slider's value  *)
(* is the current timestamp.                                               *)
(***************************************************************************)
C10_SliderStartsAtIndex ==
    InitialState =>
        /\ slider.min = 0
        /\ slider.max = Len(timestamps) - 1
        /\ slider.step = 1
        /\ slider_value = ResolvedIndex
        /\ At(timestamps, slider_value) = current_timestamp

(***************************************************************************)
(* C11 The constructor never fails for lack of a figure; render fails      *)
(* exactly when the root is no Figure, and with a Figure it succeeds and   *)
(* puts the d3 script link into the figure's header.                       *)
(***************************************************************************)
C11_EmbeddingCheckedAtRender ==
    /\ pc = "config_error" => error.what \in {"styledict", "item", "init_timestamp_index"}
    /\ pc \in {"constructed", "config_error"} => header = {}
    /\ pc = "embed_error" =>
          /\ ~args.in_figure
          /\ error.type = "AssertionError" /\ error.what = "figure"
          /\ header = {}
    /\ pc \in {"rendered", "live"} => args.in_figure /\ "d3v4" \in header /\ error = NoError
    /\ (pc # "start" /\ ValidStyleDict /\ 0 - AxisLen <= Idx /\ Idx <= AxisLen - 1)
          => pc # "config_error"

\* a widget built without a figure: the constructor succeeded, render failed
C11_Witness ==
    /\ pc = "embed_error"
    /\ ~args.in_figure
    /\ "init_timestamp_index" \in assigned
    /\ AxisLen = 2

(***************************************************************************)
(* C12 After a successful construction the axis is not empty and the       *)
(* resolved initial index lies in 0 .. len-1; over an empty axis the       *)
(* constructor fails for every index, 0 and -1 included.                   *)
(***************************************************************************)
C12_ResolvedIndexInRange ==
    /\ pc \notin {"start", "config_error"} =>
          /\ Len(timestamps) > 0
          /\ LET r == IF Idx >= 0 THEN Idx ELSE Len(timestamps) + Idx
             IN  0 <= r /\ r < Len(timestamps)
    /\ (pc # "start" /\ ValidStyleDict /\ AllKeys = {}) => pc = "config_error"

\* a styledict whose only feature has no timestamps, with index -1: refused
C12_Witness ==
    /\ pc = "config_error"
    /\ ValidStyleDict
    /\ Len(Items) = 1
    /\ AllKeys = {}
    /\ Idx = 0 - 1
    /\ error.what = "init_timestamp_index"

(***************************************************************************)
(* Vocabulary of the later properties                                      *)
(***************************************************************************)
\* a per-timestamp value that is a mapping with both color and opacity
EntryOk(e) == e.tag = "dict" /\ {"color", "opacity"} \subseteq e.keys
AllEntriesOk ==
    \A i \in DOMAIN Items : \A t \in DOMAIN Items[i].val.map : EntryOk(Items[i].val.map[t])
RECURSIVE Pow10(_)
Pow10(n) == IF n = 0 THEN 1 ELSE 10 * Pow10(n - 1)
RECURSIVE DigitSum(_, _)
DigitSum(s, k) == IF k > Len(s) THEN 0 ELSE s[k] * Pow10(Len(s) - k) + DigitSum(s, k + 1)
\* the calendar day of a timestamp of epoch seconds
DayOf(s) == DigitSum(s, 1) \div 86400

(***************************************************************************)
(* C13 After a successful construction no slider input, pointer-enter or   *)
(* pointer-leave ends with an error.                                       *)
(***************************************************************************)
C13_NoRuntimeError ==
    [][(pc = "live" /\ ~uncaught) => ~uncaught']_vars

(***************************************************************************)
(* C14 Pointer-enter and pointer-leave on F leave the current timestamp,   *)
(* the slider value, the label, styledict and every other feature's        *)
(* colour and opacity unchanged: as events of the page, and as the         *)
(* handlers are written.                                                   *)
(***************************************************************************)
C14_PointerFrame ==
    [][/\ (pc = "live" /\ hovered' # hovered) =>
             /\ UNCHANGED <<current_timestamp, slider_value, label, args, timestamps>>
             /\ \A g \in GeoFeatures \ {hovered, hovered'} : paths'[g] = paths[g]
       /\ pc = "live" =>
             \A f \in GeoFeatures : \A g \in GeoFeatures \ {f} :
                 /\ mouseover(paths, Items, current_timestamp, f).paths[g] = paths[g]
                 /\ mouseout(paths, Items, current_timestamp, f).paths[g] = paths[g]]_vars

\* the pointer is over A, which has an entry now, while B shows another opacity
C14_Witness ==
    /\ pc = "live"
    /\ args.highlight
    /\ hovered = "A"
    /\ Lookup(Items, "A") # <<>>
    /\ current_timestamp \in DOMAIN Lookup(Items, "A")[1]
    /\ RenderedOpacity(paths["B"]) = 8
    /\ RenderedOpacity(paths["A"]) = 5

(***************************************************************************)
(* C15 A click changes neither the current timestamp, nor the label, nor   *)
(* any feature's colour or opacity; nothing but the fit request to the     *)
(* map can come of it.                                                     *)
(***************************************************************************)
C15_ClickFrame ==
    [][(pc = "live" /\ hovered' = hovered /\ slider_value' = slider_value) =>
          /\ UNCHANGED <<pc, args, error, assigned, timestamps, header, current_timestamp,
                         slider, label, paths, hoverSlides, prev, uncaught>>
          /\ fit_target' \in {fit_target, hovered}]_vars

\* A, hovered and showing its entry, has been clicked
C15_Witness ==
    /\ pc = "live"
    /\ args.highlight
    /\ hovered = "A"
    /\ clicked
    /\ RenderedOpacity(paths["A"]) = 5

(***************************************************************************)
(* C16 In every state of the live page the label is the date of the        *)
(* current timestamp.                                                      *)
(***************************************************************************)
C16_LabelFollowsTimestamp ==
    pc = "live" => label = DayOf(current_timestamp)

\* after a slider input to "200000" the label shows day 2
C16_Witness ==
    /\ pc = "live"
    /\ prev # NoPrev
    /\ current_timestamp = <<2,0,0,0,0,0>>
    /\ label = 2

(***************************************************************************)
(* C17 With highlight disabled, pointer-enter, pointer-leave and click     *)
(* change nothing: no opacity is forced to 1, no fit is requested, and     *)
(* only a slider input changes what is rendered.                           *)
(***************************************************************************)
C17_HighlightOff ==
    [][(pc = "live" /\ ~args.highlight) =>
          /\ Listeners(args.highlight) = {}
          /\ fit_target' = "none"
          /\ \A f \in GeoFeatures : RenderedOpacity(paths'[f]) # 10
          /\ slider_value' = slider_value =>
                UNCHANGED <<paths, current_timestamp, label, fit_target, uncaught>>]_vars

\* highlight is off; A, which has an entry now, is hovered and has been clicked
C17_Witness ==
    /\ pc = "live"
    /\ ~args.highlight
    /\ hovered = "A"
    /\ clicked
    /\ RenderedOpacity(paths["A"]) = 8

(***************************************************************************)
(* C18 A styledict in which some time maps to something that is no         *)
(* mapping with color and opacity is refused by the constructor.           *)
(***************************************************************************)
C18_EntriesValidated ==
    (pc # "start" /\ ~AllEntriesOk) => pc = "config_error"

(***************************************************************************)
(* C19 A slider input that arrives while F is hovered leaves F showing     *)
(* its entry at the new timestamp, white / 0 when it has none.             *)
(***************************************************************************)
C19_SlideWhileHovered ==
    [][(/\ pc = "live"
        /\ AllEntriesOk
        /\ hovered # "none"
        /\ slider_value' # slider_value)
       => /\ \A i \in DOMAIN Items :
                Items[i].id = hovered => FromTable(paths'[hovered], i, current_timestamp')
          /\ hovered \notin ItemIds => Shows(paths'[hovered], "white", 0)]_vars

(***************************************************************************)
(* C20 Only the initial paint and a slider input change a feature's fill   *)
(* colour: pointer-enter and pointer-leave never do, as events of the      *)
(* page and as the handlers are written.                                   *)
(***************************************************************************)
C20_FillOnlyByRepaint ==
    [][/\ (\E f \in GeoFeatures : paths'[f].fill # paths[f].fill) =>
             (pc = "rendered" \/ (pc = "live" /\ slider_value' # slider_value))
       /\ pc = "live" =>
             \A f, g \in GeoFeatures :
                 /\ mouseover(paths, Items, current_timestamp, f).paths[g].fill = paths[g].fill
                 /\ mouseout(paths, Items, current_timestamp, f).paths[g].fill = paths[g].fill]_vars

\* the pointer was on A during a slider input that painted A red
C20_Witness ==
    /\ pc = "live"
    /\ args.highlight
    /\ hovered = "A"
    /\ hoverSlides
    /\ paths["A"].fill = "red"
    /\ prev.paths["A"].fill # "red"

====
